---- MODULE Spec2Model ----
(***************************************************************************)
(* Model of the multithreaded poly-tail FASTQ generator                    *)
(* (src/src/polyx/makePolyX_multi.py).                                     *)
(*                                                                         *)
(* One behaviour is one invocation of main(), optionally followed by a     *)
(* second invocation with the same seed, max_length, max_polytail and      *)
(* num_sequences but another thread count / batch size, so that the        *)
(* outputs of two invocations can be compared, or by an invocation of the  *)
(* single-threaded generator (src/src/polyx/makePolyX.py) with the same    *)
(* max_length, max_polytail, num_sequences and seed.                       *)
(*                                                                         *)
(* The process-wide generator of the random module is modelled by the tape *)
(* of raw values it yields after random.seed(args.seed): `tape` holds the  *)
(* part of that stream that has been observed so far and `rpos` is the     *)
(* number of raw values the current invocation has consumed.  A value that *)
(* has not been observed yet is chosen freely; an observed one is fixed,   *)
(* because the seed determines the stream.                                 *)
(***************************************************************************)
EXTENDS Integers, Sequences, FiniteSets, TLC

\* ------------------------------------------------------------------ bounds
MaxLen == 3
MaxSeqs == 3
MaxBatch == 3
MaxThreads == 2
\* bounds on (num_sequences - 1) * max_length, the bases the records with a
\* body can hold: for one invocation, and for a repeated one
MaxWork == 3
MaxWorkTwice == 2

\* one call of generate_sequence draws the tail length, the tail base, the
\* body length and at most max_length - 1 body bases
MaxDraws == MaxLen + 2

BASES == <<"A", "C", "G", "T">>

\* a raw value of the generator: large enough to select any element of any
\* range that is drawn from
Raw == 0..(IF MaxLen + 1 > Len(BASES) THEN MaxLen ELSE Len(BASES) - 1)

\* --------------------------------------------------------------- variables
VARIABLES
    args,            \* parsed command line: max_length, max_polytail, num_sequences, threads, batch_size
    run,             \* 1 for the first invocation, 2 for the one that follows it
    prev,            \* what the first invocation left behind (its args and file content)
    pc,              \* position of the main thread; single_... in makePolyX.py's main
    batch_size,      \* main's local batch_size
    num_batches,     \* main's local num_batches
    batch_idx,       \* main's loop variable
    total_sequences, \* main's local total_sequences
    file,            \* state of output_file: "unopened", "open", "closed"
    sink,            \* records written to output_file, in order
    stderr,          \* progress lines printed to sys.stderr
    work_queue,      \* the executor's queue of submitted work items
    future,          \* the future of the batch main is waiting for
    workers,         \* the pool's threads
    tape,            \* raw values of the seeded random stream observed so far
    rpos,            \* raw values consumed from the stream by this invocation
    submitted,       \* history: how often batch k was submitted
    executed,        \* history: how often a pool thread started generate_batch for batch k
    handed,          \* history: how often batch k's result was written
    dispatched,      \* history: the arguments of the generate_batch calls submitted, in order
    failed,          \* history: the batches whose generate_batch call raised
    single_i         \* loop variable i of makePolyX.py's main

vars == <<args, run, prev, pc, batch_size, num_batches, batch_idx, total_sequences,
          file, sink, stderr, work_queue, future, workers, tape, rpos,
          submitted, executed, handed, dispatched, failed, single_i>>

\* ------------------------------------------------------- python arithmetic
Min(a, b) == IF a <= b THEN a ELSE b

\* Python's a // b (floor division) for b # 0
PyFloorDiv(a, b) ==
    IF b > 0
    THEN IF a >= 0 THEN a \div b ELSE -(((-a) + b - 1) \div b)
    ELSE IF a <= 0 THEN (-a) \div (-b) ELSE -((a + (-b) - 1) \div (-b))

\* range(n) of Python: empty when n <= 0
PyRange(n) == 0..(n - 1)

\* s * n of Python for a one-character string s: empty when n <= 0
Repeat(c, n) == [i \in 1..n |-> c]

\* ------------------------------------------------------------ random module
\* random.randint(a, b) on the raw value r; raises ValueError when b < a
randint_ok(a, b) == a <= b
randint(a, b, r) == a + (r % (b - a + 1))

\* random.choice(s) on the raw value r
choice(s, r) == s[(r % Len(s)) + 1]

\* random.choices(s, k=k): k independent draws, rnd[from + 1] .. rnd[from + k]
choices(s, k, rnd, from) == [i \in 1..k |-> choice(s, rnd[from + i])]

\* -------------------------------------------------------- generate_sequence
\* the four lines of one FASTQ entry; the header keeps the values the f-string
\* formats: @seq_<id> poly=<poly> seqlen=<seqlen>[ onlytail=true]
Entry(seq_id, poly, seqlen, onlytail, full_seq, qual) ==
    [header |-> [id |-> seq_id, poly |-> poly, seqlen |-> seqlen, onlytail |-> onlytail],
     seq    |-> full_seq,
     plus   |-> "+",
     qual   |-> qual]

NoEntry == Entry(0, 0, 0, FALSE, <<>>, <<>>)

\* the tail length is drawn from one value too many
TailLenMaxOffByOne(max_polytail) == max_polytail + 1

\* upper limit of the tail length draw
TailLenMax(max_polytail) == max_polytail

\* the tail is one base short of the length the header states
PolyTailShort(polytail_base, polytail_length) == Repeat(polytail_base, polytail_length - 1)

\* polytail_base * polytail_length
PolyTail(polytail_base, polytail_length) == Repeat(polytail_base, polytail_length)

\* upper limit of the body length draw
BodyLenMax(max_length, polytail_length) == max_length - polytail_length

\* seq + polytail
FullSeq(seq, polytail) == seq \o polytail

\* the two junction markers change places
QualStringSwapped(seq_length, polytail_length) ==
    IF seq_length > 0
    THEN Repeat("I", seq_length - 1) \o <<">">> \o <<"<">> \o Repeat("9", polytail_length - 1)
    ELSE Repeat("9", polytail_length)

\* the junction markers are added to a full-length body run
QualStringLong(seq_length, polytail_length) ==
    IF seq_length > 0
    THEN Repeat("I", seq_length) \o <<"<">> \o <<">">> \o Repeat("9", polytail_length - 1)
    ELSE Repeat("9", polytail_length)

\* the quality string of a record with a body of seq_length bases
QualString(seq_length, polytail_length) ==
    IF seq_length > 0
    THEN Repeat("I", seq_length - 1) \o <<"<">> \o <<">">> \o Repeat("9", polytail_length - 1)
    ELSE Repeat("9", polytail_length)

\* the quality string of the tail-only record
TailQual(polytail_length) == Repeat("9", polytail_length)

\* generate_sequence on the raw values rnd[1], rnd[2], ... the generator yields
\* next.  ok = FALSE: the call raised (randint on an empty range); used: the
\* number of raw values consumed; ranges[i]: the size of the range the i-th
\* of them selected from.
generate_sequence(seq_id, max_length, max_polytail, is_last, rnd) ==
    IF ~randint_ok(1, TailLenMax(max_polytail))
    THEN [ok |-> FALSE, used |-> 0, ranges |-> <<>>, text |-> NoEntry]
    ELSE
      LET polytail_length == randint(1, TailLenMax(max_polytail), rnd[1])
          polytail_base   == choice(BASES, rnd[2])
          polytail        == PolyTail(polytail_base, polytail_length)
      IN  IF is_last
          THEN [ok |-> TRUE, used |-> 2,
                ranges |-> <<TailLenMax(max_polytail), Len(BASES)>>,
                text |-> Entry(seq_id, polytail_length, 0, TRUE, polytail,
                               TailQual(polytail_length))]
          ELSE IF ~randint_ok(0, BodyLenMax(max_length, polytail_length))
          THEN [ok |-> FALSE, used |-> 2,
                ranges |-> <<TailLenMax(max_polytail), Len(BASES)>>,
                text |-> NoEntry]
          ELSE
            LET seq_length == randint(0, BodyLenMax(max_length, polytail_length), rnd[3])
                seq        == choices(BASES, seq_length, rnd, 3)
            IN  [ok |-> TRUE, used |-> 3 + seq_length,
                 ranges |-> <<TailLenMax(max_polytail), Len(BASES),
                              BodyLenMax(max_length, polytail_length) + 1>>
                            \o Repeat(Len(BASES), seq_length),
                 text |-> Entry(seq_id, polytail_length, seq_length, FALSE,
                                FullSeq(seq, polytail),
                                QualString(seq_length, polytail_length))]

\* ----------------------------------------------------------- generate_batch
\* the ids restart in every batch
SeqIdLocal(start_id, i) == i

\* seq_id of the i-th record of a batch
SeqId(start_id, i) == start_id + i

\* the last record of every batch is taken for the last sequence
IsLastAnyBatch(last_batch, i, count) == i = count - 1

\* is this the very last sequence
IsLast(last_batch, i, count) == last_batch /\ i = count - 1

\* ------------------------------------------------------------------- main
\* batch_size = min(args.batch_size, args.num_sequences)
BatchSize(a) == Min(a.batch_size, a.num_sequences)

\* the quotient is not rounded up
NumBatchesFloor(a, bs) == PyFloorDiv(a.num_sequences, bs)

\* num_batches = (args.num_sequences + batch_size - 1) // batch_size
NumBatches(a, bs) == PyFloorDiv(a.num_sequences + bs - 1, bs)

StartId(idx, bs) == idx * bs

\* the first batch is taken for the last one
IsLastBatchFirst(idx, nb) == idx = 0

\* is_last_batch = (batch_idx == num_batches - 1)
IsLastBatch(idx, nb) == idx = nb - 1

\* the last batch is not cut to the sequences that remain
ActualBatchSizeFull(bs, n, start_id) == bs

\* actual_batch_size = min(batch_size, args.num_sequences - start_id)
ActualBatchSize(bs, n, start_id) == Min(bs, n - start_id)

\* the arguments of the submitted generate_batch call
Descriptor(idx) ==
    LET start_id == StartId(idx, batch_size)
    IN  [batch_index |-> idx,
         start_id    |-> start_id,
         count       |-> ActualBatchSize(batch_size, args.num_sequences, start_id),
         last_batch  |-> IsLastBatch(idx, num_batches)]

NoItem == [batch_index |-> 0, start_id |-> 0, count |-> 0, last_batch |-> FALSE]

\* write_batch_to_buffer: ''.join(batch)
write_batch_to_buffer(batch) == batch

\* the generator is not seeded and goes on where it is
SeedPosUnseeded(pos) == pos

\* random.seed(args.seed): the generator restarts at the head of the seed's stream
SeedPos(pos) == 0

\* the work item is left in the queue
DequeueKeep(q) == q

\* the work item a worker thread takes off the executor's queue
Dequeue(q) == Tail(q)

\* the count of the batch replaces the running total
CumulativeReset(total, count) == count

\* total_sequences += actual_batch_size
Cumulative(total, count) == total + count

\* main goes on with the loop without waiting for the result
AwaitNothing == "loop"

\* future.result(): main blocks until the submitted call has ended
AwaitResult == "wait"

\* the sequences generated before the exception are returned as the result
FailedPartial(sequences) == [state |-> "finished", result |-> sequences]

\* the future of a generate_batch call that raised: the exception is stored,
\* the sequences generated so far are dropped with the frame
Failed(sequences) == [state |-> "exception", result |-> <<>>]

IdleWorker == [status |-> "idle", item |-> NoItem, i |-> 0, sequences |-> <<>>]
NoFuture == [state |-> "none", result |-> <<>>]

Batches == 0..(MaxSeqs + 2)
ZeroCount == [k \in Batches |-> 0]
Bump(f, k) == [f EXCEPT ![k] = @ + 1]

\* -------------------------------------------------------------------- Init
ArgSpace ==
    [max_length    : 0..MaxLen,
     max_polytail  : 0..(MaxLen + 1),
     num_sequences : (-1)..MaxSeqs,
     threads       : 0..MaxThreads,
     batch_size    : (-1)..MaxBatch]

NoPrev == [ran |-> FALSE, args |-> [threads |-> 0, batch_size |-> 0], sink |-> <<>>]

\* the state before main runs, for the arguments a
InitWith(a) ==
    /\ args = a
    /\ run = 1
    /\ prev = NoPrev
    /\ pc = "start"
    /\ batch_size = 0
    /\ num_batches = 0
    /\ batch_idx = 0
    /\ total_sequences = 0
    /\ file = "unopened"
    /\ sink = <<>>
    /\ stderr = <<>>
    /\ work_queue = <<>>
    /\ future = NoFuture
    /\ workers = [w \in 1..MaxThreads |-> IdleWorker]
    /\ tape = <<>>
    /\ rpos = 0
    /\ submitted = ZeroCount
    /\ executed = ZeroCount
    /\ handed = ZeroCount
    /\ dispatched = <<>>
    /\ failed = {}
    /\ single_i = 0

Work(a) == (a.num_sequences - 1) * a.max_length

\* arguments that stand for the others: a batch size above num_sequences + 1
\* is cut to num_sequences like num_sequences + 1 is, and a max_polytail above
\* max_length + 1 only adds tail lengths that make randint raise like
\* max_length + 1 does
Representative(a) ==
    /\ a.batch_size <= a.num_sequences + 1
    /\ a.max_polytail <= a.max_length + 1

\* any arguments argparse accepts, within the bounds
Init ==
    \E a \in ArgSpace :
        /\ Work(a) <= MaxWork
        /\ Representative(a)
        /\ InitWith(a)

\* the arguments that meet the documented constraints
ValidArgs(a) ==
    /\ a.num_sequences >= 1
    /\ a.max_length >= 1
    /\ 1 <= a.max_polytail /\ a.max_polytail <= a.max_length
    /\ a.batch_size >= 1
    /\ a.threads >= 1

\* the first of two invocations is the single-threaded one
InitValid ==
    \E a \in ArgSpace :
        /\ Work(a) <= MaxWorkTwice
        /\ Representative(a)
        /\ ValidArgs(a)
        /\ a.threads = 1
        /\ InitWith(a)

\* ----------------------------------------------------------------- actions
\* main, lines 96-111: seed the generator, size the batches, open the output
\* file, create the executor.  min(..) = 0 makes the floor division raise
\* before the file is opened; max_workers <= 0 makes ThreadPoolExecutor raise
\* after it was opened.
Start ==
    /\ pc = "start"
    /\ rpos' = SeedPos(rpos)
    /\ LET bs == BatchSize(args)
       IN  IF bs = 0
           THEN /\ pc' = "crashed"
                /\ UNCHANGED <<batch_size, num_batches, file>>
           ELSE /\ batch_size' = bs
                /\ num_batches' = NumBatches(args, bs)
                /\ file' = "open"
                /\ pc' = IF args.threads <= 0 THEN "crashed" ELSE "loop"
    /\ UNCHANGED <<args, run, prev, batch_idx, total_sequences, sink, stderr,
                   work_queue, future, workers, tape, submitted, executed, handed,
                   dispatched, failed>>
    /\ UNCHANGED single_i

\* main, lines 112-127: next iteration of the loop, executor.submit(generate_batch, ...)
Submit ==
    /\ pc = "loop"
    /\ batch_idx \in PyRange(num_batches)
    /\ work_queue' = Append(work_queue, Descriptor(batch_idx))
    /\ future' = [state |-> "pending", result |-> <<>>]
    /\ submitted' = Bump(submitted, batch_idx)
    /\ dispatched' = Append(dispatched, Descriptor(batch_idx))
    /\ pc' = AwaitResult
    /\ UNCHANGED <<args, run, prev, batch_size, num_batches, batch_idx, total_sequences,
                   file, sink, stderr, workers, tape, rpos, executed, handed, failed>>
    /\ UNCHANGED single_i

\* a thread of the pool (at most max_workers of them) takes the next work item
WorkerTake(w) ==
    /\ w \in 1..args.threads
    /\ workers[w].status = "idle"
    /\ work_queue # <<>>
    /\ workers' = [workers EXCEPT ![w] =
                     [status |-> "busy", item |-> Head(work_queue), i |-> 0, sequences |-> <<>>]]
    /\ work_queue' = Dequeue(work_queue)
    /\ future' = [future EXCEPT !.state = "running"]
    /\ executed' = Bump(executed, Head(work_queue).batch_index)
    /\ UNCHANGED <<args, run, prev, pc, batch_size, num_batches, batch_idx, total_sequences,
                   file, sink, stderr, tape, rpos, submitted, handed, dispatched, failed>>
    /\ UNCHANGED single_i

\* the raw value the generator yields at the i-th next draw, when it selects
\* from a range of n elements: fixed where the stream of this seed has been
\* observed, and the index of any element of the range where it has not
Yield(i, n) ==
    IF rpos + i <= Len(tape) THEN {tape[rpos + i]} ELSE 0..(n - 1)

\* raw values that are not consumed are left at 0
Pad(prefix) == [i \in 1..MaxDraws |-> IF i <= Len(prefix) THEN prefix[i] ELSE 0]

\* the raw values the generator can yield to one call of generate_sequence:
\* the call is followed draw by draw, each draw extending the prefix
RECURSIVE NextRaws(_, _, _, _, _)
NextRaws(seq_id, max_length, max_polytail, is_last, prefix) ==
    LET res == generate_sequence(seq_id, max_length, max_polytail, is_last, Pad(prefix))
        k   == Len(prefix)
    IN  IF res.used <= k
        THEN {Pad(prefix)}
        ELSE UNION {NextRaws(seq_id, max_length, max_polytail, is_last, Append(prefix, v)) :
                        v \in Yield(k + 1, res.ranges[k + 1])}

Observe(rnd, used) ==
    [i \in 1..(IF rpos + used > Len(tape) THEN rpos + used ELSE Len(tape)) |->
        IF i <= Len(tape) THEN tape[i] ELSE rnd[i - rpos]]

\* generate_batch, lines 57-61: one iteration of the loop in worker w; an
\* exception of generate_sequence ends the work item and is stored in the future
WorkerGenerate(w) ==
    /\ w \in 1..args.threads
    /\ workers[w].status = "busy"
    /\ workers[w].i \in PyRange(workers[w].item.count)
    /\ LET it      == workers[w].item
           i       == workers[w].i
           seq_id  == SeqId(it.start_id, i)
           is_last == IsLast(it.last_batch, i, it.count)
       IN  \E rnd \in NextRaws(seq_id, args.max_length, args.max_polytail, is_last, <<>>) :
         LET res == generate_sequence(seq_id, args.max_length, args.max_polytail,
                                      is_last, rnd)
         IN  /\ tape' = Observe(rnd, res.used)
             /\ rpos' = rpos + res.used
             /\ IF res.ok
                THEN /\ workers' = [workers EXCEPT ![w].i = @ + 1,
                                                   ![w].sequences = Append(@, res.text)]
                     /\ UNCHANGED <<future, failed>>
                ELSE /\ workers' = [workers EXCEPT ![w] = IdleWorker]
                     /\ future' = Failed(workers[w].sequences)
                     /\ failed' = failed \cup {it.batch_index}
    /\ UNCHANGED <<args, run, prev, pc, batch_size, num_batches, batch_idx, total_sequences,
                   file, sink, stderr, work_queue, submitted, executed, handed, dispatched>>
    /\ UNCHANGED single_i

\* generate_batch, line 63: return sequences; the executor sets the future's result
WorkerReturn(w) ==
    /\ w \in 1..args.threads
    /\ workers[w].status = "busy"
    /\ workers[w].i \notin PyRange(workers[w].item.count)
    /\ future' = [state |-> "finished", result |-> workers[w].sequences]
    /\ workers' = [workers EXCEPT ![w] = IdleWorker]
    /\ UNCHANGED <<args, run, prev, pc, batch_size, num_batches, batch_idx, total_sequences,
                   file, sink, stderr, work_queue, tape, rpos, submitted, executed, handed,
                   dispatched, failed>>
    /\ UNCHANGED single_i

\* main, lines 130-136: future.result() returns, the batch is joined and
\* written, progress is printed
WriteBatch ==
    /\ pc = "wait"
    /\ future.state = "finished"
    /\ LET d == Descriptor(batch_idx)
       IN  /\ sink' = sink \o write_batch_to_buffer(future.result)
           /\ total_sequences' = Cumulative(total_sequences, d.count)
           /\ stderr' = Append(stderr, [batch |-> batch_idx + 1,
                                        total |-> Cumulative(total_sequences, d.count)])
    /\ handed' = Bump(handed, batch_idx)
    /\ future' = NoFuture
    /\ batch_idx' = batch_idx + 1
    /\ pc' = "loop"
    /\ UNCHANGED <<args, run, prev, batch_size, num_batches, file, work_queue, workers,
                   tape, rpos, submitted, executed, dispatched, failed>>
    /\ UNCHANGED single_i

\* main, line 130: future.result() re-raises the exception of generate_batch;
\* the with block shuts the executor down and the exception leaves main
Raise ==
    /\ pc = "wait"
    /\ future.state = "exception"
    /\ \A w \in 1..args.threads : workers[w].status = "idle"
    /\ pc' = "crashed"
    /\ UNCHANGED <<args, run, prev, batch_size, num_batches, batch_idx, total_sequences,
                   file, sink, stderr, work_queue, future, workers, tape, rpos,
                   submitted, executed, handed, dispatched, failed>>
    /\ UNCHANGED single_i

\* main, lines 111-141: the loop is over, the with block waits for the pool's
\* threads, the file is closed and success is reported
Finish ==
    /\ pc = "loop"
    /\ batch_idx \notin PyRange(num_batches)
    /\ \A w \in 1..args.threads : workers[w].status = "idle"
    /\ file' = "closed"
    /\ pc' = "done"
    /\ UNCHANGED <<args, run, prev, batch_size, num_batches, batch_idx, total_sequences,
                   sink, stderr, work_queue, future, workers, tape, rpos,
                   submitted, executed, handed, dispatched, failed>>
    /\ UNCHANGED single_i

\* the program is invoked again with the same seed, max_length, max_polytail
\* and num_sequences, and any thread count and batch size
Rerun ==
    /\ pc = "done"
    /\ run = 1
    /\ \E t \in 1..MaxThreads, b \in 1..MaxBatch :
         /\ <<t, b>> # <<args.threads, args.batch_size>>
         /\ args' = [args EXCEPT !.threads = t, !.batch_size = b]
         /\ Representative(args')
    /\ prev' = [ran |-> TRUE,
                args |-> [threads |-> args.threads, batch_size |-> args.batch_size],
                sink |-> sink]
    /\ run' = 2
    /\ pc' = "start"
    /\ batch_size' = 0
    /\ num_batches' = 0
    /\ batch_idx' = 0
    /\ total_sequences' = 0
    /\ file' = "unopened"
    /\ sink' = <<>>
    /\ stderr' = <<>>
    /\ work_queue' = <<>>
    /\ future' = NoFuture
    /\ workers' = [w \in 1..MaxThreads |-> IdleWorker]
    /\ submitted' = ZeroCount
    /\ executed' = ZeroCount
    /\ handed' = ZeroCount
    /\ dispatched' = <<>>
    /\ failed' = {}
    /\ UNCHANGED <<tape, rpos>>
    /\ UNCHANGED single_i

\* one invocation, any arguments
Next ==
    \/ Start
    \/ Submit
    \/ \E w \in 1..MaxThreads : WorkerTake(w)
    \/ \E w \in 1..MaxThreads : WorkerGenerate(w)
    \/ \E w \in 1..MaxThreads : WorkerReturn(w)
    \/ WriteBatch
    \/ Raise
    \/ Finish

Spec == Init /\ [][Next]_vars

\* two invocations with the same seed and valid arguments
NextTwice ==
    \/ Start
    \/ Submit
    \/ \E w \in 1..MaxThreads : WorkerTake(w)
    \/ \E w \in 1..MaxThreads : WorkerGenerate(w)
    \/ \E w \in 1..MaxThreads : WorkerReturn(w)
    \/ WriteBatch
    \/ Finish
    \/ Rerun

SpecTwice == InitValid /\ [][NextTwice]_vars

\* any arguments that meet the documented constraints
InitLive ==
    \E a \in ArgSpace :
        /\ Work(a) <= MaxWork
        /\ Representative(a)
        /\ ValidArgs(a)
        /\ InitWith(a)

\* one invocation with valid arguments: generate_sequence does not raise
NextLive ==
    \/ Start
    \/ Submit
    \/ \E w \in 1..MaxThreads : WorkerTake(w)
    \/ \E w \in 1..MaxThreads : WorkerGenerate(w)
    \/ \E w \in 1..MaxThreads : WorkerReturn(w)
    \/ WriteBatch
    \/ Finish

\* the main thread goes on whenever it is not blocked in future.result() or
\* in the executor's shutdown (output_file.write returns), and so does every
\* thread of the pool: the work in generate_batch is finite computation
Fairness ==
    /\ WF_vars(Start \/ Submit \/ WriteBatch \/ Finish)
    /\ \A w \in 1..MaxThreads :
          WF_vars(WorkerTake(w) \/ WorkerGenerate(w) \/ WorkerReturn(w))

SpecLive == InitLive /\ [][NextLive]_vars /\ Fairness

\* -------------------------------------------------------------- makePolyX.py
\* one iteration of the loop of makePolyX.py's main, lines 46-66, on the raw
\* values rnd[1], rnd[2], ... its generator yields next
single_record(id, max_length, max_polytail, rnd) ==
    IF ~randint_ok(1, max_polytail)
    THEN [ok |-> FALSE, used |-> 0, ranges |-> <<>>, text |-> NoEntry]
    ELSE
      LET polytail_length == randint(1, max_polytail, rnd[1])
          polytail_base   == choice(BASES, rnd[2])
          polytail        == Repeat(polytail_base, polytail_length)
      IN  IF ~randint_ok(0, max_length - polytail_length)
          THEN [ok |-> FALSE, used |-> 2, ranges |-> <<max_polytail, Len(BASES)>>,
                text |-> NoEntry]
          ELSE
            LET seq_length == randint(0, max_length - polytail_length, rnd[3])
                seq        == choices(BASES, seq_length, rnd, 3)
                full_seq   == seq \o polytail
                qual       == IF seq_length > 0
                              THEN Repeat("I", seq_length - 1) \o <<"<">> \o <<">">>
                                     \o Repeat("9", polytail_length - 1)
                              ELSE Repeat("9", polytail_length)
            IN  [ok |-> TRUE, used |-> 3 + seq_length,
                 ranges |-> <<max_polytail, Len(BASES), max_length - polytail_length + 1>>
                            \o Repeat(Len(BASES), seq_length),
                 text |-> Entry(id, polytail_length, seq_length, FALSE, full_seq, qual)]

\* the last sequence of makePolyX.py's main, lines 69-73
single_last(id, max_length, max_polytail, rnd) ==
    IF ~randint_ok(1, max_polytail)
    THEN [ok |-> FALSE, used |-> 0, ranges |-> <<>>, text |-> NoEntry]
    ELSE
      LET polytail_length == randint(1, max_polytail, rnd[1])
          polytail_base   == choice(BASES, rnd[2])
          polytail        == Repeat(polytail_base, polytail_length)
          qual            == Repeat("9", polytail_length)
      IN  [ok |-> TRUE, used |-> 2, ranges |-> <<max_polytail, Len(BASES)>>,
           text |-> Entry(id, polytail_length, 0, TRUE, polytail, qual)]

single_step(last, id, max_length, max_polytail, rnd) ==
    IF last THEN single_last(id, max_length, max_polytail, rnd)
            ELSE single_record(id, max_length, max_polytail, rnd)

\* the raw values the generator can yield to one such step, draw by draw
RECURSIVE SingleRaws(_, _, _, _, _)
SingleRaws(last, id, max_length, max_polytail, prefix) ==
    LET res == single_step(last, id, max_length, max_polytail, Pad(prefix))
        k   == Len(prefix)
    IN  IF res.used <= k
        THEN {Pad(prefix)}
        ELSE UNION {SingleRaws(last, id, max_length, max_polytail, Append(prefix, v)) :
                        v \in Yield(k + 1, res.ranges[k + 1])}

\* makePolyX.py never calls random.seed (args.seed is parsed and not used):
\* its generator is seeded by the interpreter from the system's entropy, so
\* nothing is known of the stream it yields
UnseededTape(t) == <<>>

\* makePolyX.py is invoked with the max_length, max_polytail, num_sequences
\* and seed of the invocation of makePolyX_multi.py that has completed
SingleInvoke ==
    /\ pc = "done"
    /\ run = 1
    /\ prev' = [ran |-> TRUE,
                args |-> [threads |-> args.threads, batch_size |-> args.batch_size],
                sink |-> sink]
    /\ run' = 2
    /\ pc' = "single_start"
    /\ batch_size' = 0
    /\ num_batches' = 0
    /\ batch_idx' = 0
    /\ total_sequences' = 0
    /\ file' = "unopened"
    /\ sink' = <<>>
    /\ stderr' = <<>>
    /\ submitted' = ZeroCount
    /\ executed' = ZeroCount
    /\ handed' = ZeroCount
    /\ dispatched' = <<>>
    /\ tape' = UnseededTape(tape)
    /\ rpos' = 0
    /\ UNCHANGED <<args, work_queue, future, workers, failed, single_i>>

\* makePolyX.py main, lines 35-38: the output file is opened
SingleOpen ==
    /\ pc = "single_start"
    /\ file' = "open"
    /\ single_i' = 0
    /\ pc' = "single_loop"
    /\ UNCHANGED <<args, run, prev, batch_size, num_batches, batch_idx, total_sequences,
                   sink, stderr, work_queue, future, workers, tape, rpos,
                   submitted, executed, handed, dispatched, failed>>

\* makePolyX.py main, lines 40-66: one iteration of the loop; an exception of
\* randint leaves main, with the file as it is
SingleRecord ==
    /\ pc = "single_loop"
    /\ single_i \in PyRange(args.num_sequences - 1)
    /\ \E rnd \in SingleRaws(FALSE, single_i, args.max_length, args.max_polytail, <<>>) :
         LET res == single_record(single_i, args.max_length, args.max_polytail, rnd)
         IN  /\ tape' = Observe(rnd, res.used)
             /\ rpos' = rpos + res.used
             /\ IF res.ok
                THEN /\ sink' = Append(sink, res.text)
                     /\ single_i' = single_i + 1
                     /\ pc' = "single_loop"
                ELSE /\ pc' = "single_crashed"
                     /\ UNCHANGED <<sink, single_i>>
    /\ UNCHANGED <<args, run, prev, batch_size, num_batches, batch_idx, total_sequences,
                   file, stderr, work_queue, future, workers,
                   submitted, executed, handed, dispatched, failed>>

\* makePolyX.py main, lines 68-73: the last sequence, a single poly-tail
SingleLast ==
    /\ pc = "single_loop"
    /\ single_i \notin PyRange(args.num_sequences - 1)
    /\ \E rnd \in SingleRaws(TRUE, args.num_sequences - 1, args.max_length,
                              args.max_polytail, <<>>) :
         LET res == single_last(args.num_sequences - 1, args.max_length,
                                args.max_polytail, rnd)
         IN  /\ tape' = Observe(rnd, res.used)
             /\ rpos' = rpos + res.used
             /\ IF res.ok
                THEN /\ sink' = Append(sink, res.text)
                     /\ pc' = "single_last"
                ELSE /\ pc' = "single_crashed"
                     /\ UNCHANGED sink
    /\ UNCHANGED <<args, run, prev, batch_size, num_batches, batch_idx, total_sequences,
                   file, stderr, work_queue, future, workers,
                   submitted, executed, handed, dispatched, failed, single_i>>

\* makePolyX.py main, lines 75-78: the summary is printed and the file closed
SingleClose ==
    /\ pc = "single_last"
    /\ file' = "closed"
    /\ pc' = "single_done"
    /\ UNCHANGED <<args, run, prev, batch_size, num_batches, batch_idx, total_sequences,
                   sink, stderr, work_queue, future, workers, tape, rpos,
                   submitted, executed, handed, dispatched, failed, single_i>>

\* an invocation of makePolyX_multi.py with valid arguments, followed by one
\* of makePolyX.py with the same max_length, max_polytail, num_sequences, seed
NextSingle ==
    \/ Start
    \/ Submit
    \/ \E w \in 1..MaxThreads : WorkerTake(w)
    \/ \E w \in 1..MaxThreads : WorkerGenerate(w)
    \/ \E w \in 1..MaxThreads : WorkerReturn(w)
    \/ WriteBatch
    \/ Finish
    \/ SingleInvoke
    \/ SingleOpen
    \/ SingleRecord
    \/ SingleLast
    \/ SingleClose

SpecSingle == InitValid /\ [][NextSingle]_vars

\* ============================================================== properties
\* num_sequences, batch_size and the worker count meet their constraints
ValidCounts ==
    /\ args.num_sequences >= 1
    /\ args.batch_size >= 1
    /\ args.threads >= 1

\* the records a worker holds or has returned, and the records in the file
InFlight ==
    UNION {{workers[w].sequences[i] : i \in 1..Len(workers[w].sequences)} : w \in 1..MaxThreads}
      \cup {future.result[i] : i \in 1..Len(future.result)}
Written == {sink[i] : i \in 1..Len(sink)}

IsPrefix(s, t) == Len(s) <= Len(t) /\ \A i \in 1..Len(s) : s[i] = t[i]

\* C1: with num_sequences, batch_size and threads all >= 1, the ids in the file
\* are 0, 1, 2, ... in this order at every moment (no gap, no duplicate), the
\* file holds whole batches only, in batch order, and a run that completes has
\* written exactly the ids 0 .. num_sequences - 1.
OrderInvariant ==
    ValidCounts =>
        /\ \A i \in 1..Len(sink) : sink[i].header.id = i - 1
        /\ Len(sink) <= args.num_sequences
        /\ pc \in {"loop", "wait", "done"} =>
               Len(sink) = Min(batch_idx * batch_size, args.num_sequences)
        /\ pc = "done" => Len(sink) = args.num_sequences

\* a completed run of three sequences in batches of two: the last batch is short
OrderWitness ==
    /\ ValidCounts
    /\ pc = "done"
    /\ args.num_sequences = 3
    /\ batch_size = 2
    /\ num_batches = 2
    /\ Len(sink) = 3

\* C2: with num_sequences, batch_size and threads all >= 1, a record is
\* generated as tail-only exactly if its id is num_sequences - 1, a tail-only
\* record states seqlen=0, and a run that completes has written exactly one
\* tail-only record, as the last one; so with num_sequences = 1 no record
\* other than the tail-only one is ever generated.
SingleTailOnly ==
    ValidCounts =>
        /\ \A r \in InFlight \cup Written :
              /\ r.header.onlytail <=> (r.header.id = args.num_sequences - 1)
              /\ r.header.onlytail => r.header.seqlen = 0
        /\ pc = "done" =>
              /\ Cardinality({i \in 1..Len(sink) : sink[i].header.onlytail}) = 1
              /\ sink[Len(sink)].header.onlytail
              /\ sink[Len(sink)].header.id = args.num_sequences - 1

\* a completed run that wrote a record with a body before the tail-only one
SingleTailOnlyWitness ==
    /\ ValidCounts
    /\ pc = "done"
    /\ args.num_sequences = 2
    /\ num_batches = 2
    /\ ~sink[1].header.onlytail /\ sink[1].header.seqlen > 0
    /\ sink[2].header.onlytail

\* C3: a second run with the same seed, max_length, max_polytail,
\* num_sequences and batch size but another thread count writes, batch after
\* batch, the content the first run wrote, whichever threads take the batches.
WorkerCountDeterminism ==
    (run = 2 /\ args.batch_size = prev.args.batch_size) =>
        /\ IsPrefix(sink, prev.sink)
        /\ pc = "done" => sink = prev.sink

\* both runs completed, with one and with two threads, and wrote two records
WorkerCountWitness ==
    /\ run = 2
    /\ pc = "done"
    /\ args.batch_size = prev.args.batch_size
    /\ prev.args.threads = 1 /\ args.threads = 2
    /\ Len(sink) = 2
    /\ sink[1].header.seqlen > 0

\* C4: a second run with the same seed, max_length, max_polytail and
\* num_sequences writes the content the first run wrote, whatever batch size
\* and thread count either run uses.
BatchSizeIndependence ==
    (run = 2 /\ pc = "done") => sink = prev.sink

\* the first run wrote three records in one batch, the second in three batches
BatchSizeWitness ==
    /\ run = 2
    /\ pc = "done"
    /\ prev.args.batch_size = 3 /\ prev.args.threads = 1
    /\ args.batch_size = 1 /\ args.threads = 2
    /\ num_batches = 3
    /\ Len(sink) = 3

\* C5: every record without onlytail in the file states a tail length in
\* 1 .. max_polytail and a body length >= 0, its line is no longer than
\* max_length, and with max_polytail = max_length = 1 it has no body and a
\* tail of one base.
LengthBound ==
    \A r \in Written :
        ~r.header.onlytail =>
            /\ r.header.poly \in 1..args.max_polytail
            /\ r.header.seqlen >= 0
            /\ r.header.seqlen + r.header.poly <= args.max_length
            /\ Len(r.seq) <= args.max_length
            /\ (args.max_polytail = 1 /\ args.max_length = 1) =>
                   (r.header.seqlen = 0 /\ r.header.poly = 1)

\* a written record that fills max_length with a body and a tail of two bases
LengthBoundWitness ==
    \E r \in Written :
        /\ ~r.header.onlytail
        /\ r.header.seqlen > 0
        /\ r.header.poly = 2
        /\ r.header.seqlen + r.header.poly = args.max_length

\* C6: the quality line of every record in the file is as long as its
\* sequence line and as long as poly + seqlen of its header.
QualityLength ==
    \A r \in Written :
        /\ Len(r.qual) = r.header.seqlen + r.header.poly
        /\ Len(r.qual) = Len(r.seq)

\* the file holds a record with a body of two bases and the tail-only record
QualityLengthWitness ==
    /\ \E r \in Written : ~r.header.onlytail /\ r.header.seqlen = 2
    /\ \E r \in Written : r.header.onlytail /\ r.header.poly > 1

\* the length of the longest run of one base that ends the line s
TerminalRun(s) ==
    CHOOSE k \in 0..Len(s) :
        /\ \A j \in (Len(s) - k + 1)..Len(s) : s[j] = s[Len(s)]
        /\ k < Len(s) => (k > 0 /\ s[Len(s) - k] # s[Len(s)])

\* C7 as stated: in every record of the file, poly is the length of the
\* homopolymer run that ends the sequence line and seqlen is the offset at
\* which that run starts.
HeaderIsTerminalRun ==
    \A r \in Written :
        /\ TerminalRun(r.seq) = r.header.poly
        /\ Len(r.seq) - TerminalRun(r.seq) = r.header.seqlen

\* C7 as amended: in every record of the file the sequence line is seqlen
\* bases followed by poly >= 1 copies of one base, so the line ends in a run
\* of at least poly equal bases; the run that ends the line is exactly the
\* tail (length poly, starting at offset seqlen) if and only if the body is
\* empty or its last base differs from the tail base.
HeaderDescribesTail ==
    \A r \in Written :
        LET n == Len(r.seq)
            b == r.header.seqlen
        IN  /\ r.header.poly >= 1
            /\ b >= 0
            /\ n = b + r.header.poly
            /\ \A j \in 1..n : \E c \in 1..Len(BASES) : r.seq[j] = BASES[c]
            /\ \A j \in (b + 1)..n : r.seq[j] = r.seq[n]
            /\ TerminalRun(r.seq) >= r.header.poly
            /\ (TerminalRun(r.seq) = r.header.poly) <=> (b = 0 \/ r.seq[b] # r.seq[n])

\* a written record whose body ends with the base of its two-base tail
HeaderDescribesTailWitness ==
    \E r \in Written :
        /\ r.header.seqlen > 0
        /\ r.header.poly = 2
        /\ r.seq[r.header.seqlen] = r.seq[Len(r.seq)]
        /\ TerminalRun(r.seq) = 3

\* C8: a run with max_polytail > max_length (max_length >= 1 and
\* num_sequences, batch_size, threads >= 1) fails before anything is written:
\* the file stays empty and the run does not complete.
LongTailRejected ==
    (args.max_polytail > args.max_length /\ args.max_length >= 1 /\ ValidCounts) =>
        /\ sink = <<>>
        /\ pc # "done"

\* C9: a run with num_sequences < 1, batch_size < 1 or threads < 1 is rejected
\* at its start: the file is not opened or written, no batch is submitted and
\* success is not reported.
BadCountsRejected ==
    ~ValidCounts =>
        /\ file = "unopened"
        /\ sink = <<>>
        /\ \A k \in Batches : submitted[k] = 0
        /\ pc # "done"

\* C10: no batch is submitted, started or written more than once, a batch is
\* started only after it was submitted and written only after it was started,
\* and in a run that completes each batch 0 .. num_batches - 1 was submitted,
\* started and written exactly once and no other batch was.
ExactlyOnce ==
    /\ \A k \in Batches :
          /\ submitted[k] <= 1
          /\ executed[k] <= submitted[k]
          /\ handed[k] <= executed[k]
    /\ pc = "done" =>
          \A k \in Batches :
              LET c == IF k \in PyRange(num_batches) THEN 1 ELSE 0
              IN  submitted[k] = c /\ executed[k] = c /\ handed[k] = c

\* a completed run of three batches
ExactlyOnceWitness ==
    /\ ValidArgs(args)
    /\ pc = "done"
    /\ num_batches = 3
    /\ \A k \in 0..2 : submitted[k] = 1 /\ executed[k] = 1 /\ handed[k] = 1
    /\ Len(sink) = 3

\* C11: when generate_batch raises for batch k, k is the batch main is waiting
\* for and the only one that failed, main is at future.result() or has left
\* with the exception, no batch after k is submitted, nothing is queued,
\* batch k is never written, and the file holds exactly the whole batches
\* 0 .. k-1: k * batch_size records, all with ids below the first id of k.
GenerationFailureAborts ==
    \A k \in failed :
        /\ failed = {k}
        /\ k = batch_idx
        /\ pc \in {"wait", "crashed"}
        /\ work_queue = <<>>
        /\ \A j \in Batches : j > k => submitted[j] = 0
        /\ \A j \in Batches : handed[j] = (IF j < k THEN 1 ELSE 0)
        /\ Len(sink) = k * batch_size
        /\ \A r \in Written : r.header.id < StartId(k, batch_size)
        /\ total_sequences = Len(sink)

\* the second of three batches raised after the first was written, and main
\* has left with the exception
GenerationFailureWitness ==
    /\ failed = {1}
    /\ pc = "crashed"
    /\ num_batches = 3
    /\ submitted[1] = 1 /\ executed[1] = 1
    /\ Len(sink) = 1
    /\ sink[1].header.id = 0

\* C12: with num_sequences, batch_size and threads all >= 1, stderr holds one
\* progress line per batch written, in batch order, and nothing else does: the
\* file holds FASTQ records only; the total a line reports is the number of
\* records in the file when it is printed, the last line printed reports the
\* number of records in the file now, and in a run that completes it reports
\* num_sequences.
ProgressMatchesSink ==
    ValidCounts =>
        /\ Len(stderr) = Cardinality({k \in Batches : handed[k] > 0})
        /\ \A j \in 1..Len(stderr) :
              /\ handed[j - 1] = 1
              /\ stderr[j].batch = j
              /\ stderr[j].total = Min(j * batch_size, args.num_sequences)
        /\ Len(sink) = (IF stderr = <<>> THEN 0 ELSE stderr[Len(stderr)].total)
        /\ \A r \in Written : DOMAIN r = {"header", "seq", "plus", "qual"}
        /\ pc = "done" =>
              /\ Len(stderr) = num_batches
              /\ stderr[Len(stderr)].total = args.num_sequences

\* a completed run of three sequences in batches of two: the progress lines
\* report 2 and 3
ProgressWitness ==
    /\ ValidCounts
    /\ pc = "done"
    /\ Len(stderr) = 2
    /\ stderr[1].total = 2
    /\ stderr[2].total = 3
    /\ Len(sink) = 3

\* C13: generate_sequence raises when max_polytail < 1, when max_length < 1
\* and when the tail length it drew exceeds max_length, for the tail-only
\* record as for the others; so every record that is generated or written
\* comes from max_polytail >= 1 and max_length >= 1 and states a tail length
\* of at most max_length.
TailWithinMaxLength ==
    \A r \in InFlight \cup Written :
        /\ args.max_polytail >= 1
        /\ args.max_length >= 1
        /\ r.header.poly <= args.max_length

\* C14: with num_sequences, batch_size and threads all >= 1, whatever the
\* batch size (above num_sequences or not dividing it), a submitted batch is
\* flagged last_batch exactly if it holds the id num_sequences - 1, at most one
\* submitted batch is flagged and in a run that completes exactly one, the
\* last; and a record, in a worker's hands or in the file, was generated with
\* is_last (it carries onlytail) exactly if it is the record at
\* start_id + count - 1 of the flagged batch.
OneLastBatch ==
    ValidCounts =>
        LET flagged == {j \in 1..Len(dispatched) : dispatched[j].last_batch}
            LastOf(d, id) == d.last_batch /\ id = d.start_id + d.count - 1
        IN  /\ \A j \in 1..Len(dispatched) :
                  LET d == dispatched[j]
                  IN  /\ d.batch_index = j - 1
                      /\ d.count >= 1
                      /\ d.last_batch <=>
                            (d.start_id <= args.num_sequences - 1
                               /\ args.num_sequences - 1 < d.start_id + d.count)
            /\ Cardinality(flagged) <= 1
            /\ pc = "done" => flagged = {Len(dispatched)}
            /\ \A w \in 1..MaxThreads : \A k \in 1..Len(workers[w].sequences) :
                  LET r == workers[w].sequences[k]
                  IN  /\ workers[w].item \in {dispatched[j] : j \in 1..Len(dispatched)}
                      /\ r.header.id = workers[w].item.start_id + k - 1
                      /\ r.header.onlytail <=> LastOf(workers[w].item, r.header.id)
            /\ \A k \in 1..Len(sink) :
                  LET d == dispatched[((k - 1) \div batch_size) + 1]
                  IN  /\ d.start_id <= sink[k].header.id
                      /\ sink[k].header.id < d.start_id + d.count
                      /\ sink[k].header.onlytail <=> LastOf(d, sink[k].header.id)

\* a completed run of three sequences in batches of two: the second batch is
\* the flagged one and holds the tail-only record alone
OneLastBatchWitness ==
    /\ ValidCounts
    /\ pc = "done"
    /\ args.num_sequences = 3
    /\ Len(dispatched) = 2
    /\ ~dispatched[1].last_batch /\ dispatched[1].count = 2
    /\ dispatched[2].last_batch /\ dispatched[2].count = 1
    /\ ~sink[2].header.onlytail
    /\ sink[3].header.onlytail

IndependentSources ==
    [][(ValidArgs(args) /\ \E w \in 1..MaxThreads : WorkerGenerate(w)) => rpos' = rpos]_vars

\* the least q with q * d >= n, for n, d >= 1
Ceil(n, d) == CHOOSE q \in 1..n : (q - 1) * d < n /\ n <= q * d

\* main has returned: every batch was written, the file is closed, nothing is
\* queued, pending or in a worker's hands
Terminated ==
    /\ pc = "done"
    /\ batch_idx = num_batches
    /\ num_batches = Ceil(args.num_sequences, Min(args.batch_size, args.num_sequences))
    /\ \A k \in Batches : handed[k] = (IF k < num_batches THEN 1 ELSE 0)
    /\ Len(sink) = args.num_sequences
    /\ file = "closed"
    /\ work_queue = <<>>
    /\ future = NoFuture
    /\ \A w \in 1..MaxThreads : workers[w] = IdleWorker

\* C17: a run with valid arguments, whose threads are scheduled fairly and
\* whose writes return, eventually has written
\* ceil(num_sequences / min(batch_size, num_sequences)) batches and returned
\* with the file closed and no batch queued, pending or held, and stays so.
Termination == <>[]Terminated

\* a run of three sequences in batches of two has terminated after two batches
TerminationWitness ==
    /\ Terminated
    /\ args.num_sequences = 3
    /\ args.batch_size = 2
    /\ args.threads = 2
    /\ num_batches = 2

RefinesSingleThreaded ==
    pc = "single_done" => sink = prev.sink

\* C20: a run (with num_sequences, batch_size and threads all >= 1) that has
\* opened the output file has closed it when it ends, whether main returns or
\* an exception leaves it, and the file is closed only by a run that has
\* ended, so that nothing is written after the close.
SinkClosedAtEnd ==
    ValidCounts =>
        /\ pc \in {"done", "crashed"} => file # "open"
        /\ file = "closed" => pc = "done"

====
